---- MODULE Spec2Model ----
(***************************************************************************)
(* Model of src/main.py: the Lunara AI contact-form backend.               *)
(*                                                                         *)
(* State: the contact_messages table of the SQLite file, the process       *)
(* environment read by send_contact_email, the sessions SessionLocal()     *)
(* has handed out, and one record per POST /api/contact request holding    *)
(* the position of that request in submit_contact.  Requests run in the    *)
(* server's thread pool, so their steps interleave.                        *)
(***************************************************************************)
EXTENDS Integers, Sequences, FiniteSets, TLC

\* ------------------------------------------------------------------ bounds
NumRequests == 2        \* POST /api/contact requests in one behaviour
MaxTime == 1            \* datetime.utcnow() readings are drawn from 0..MaxTime

Requests == 1..NumRequests
Times == 0..MaxTime

\* ------------------------------------------------------------------ values
\* A Python or JSON value: None, a missing key, a value that is not a string
\* (array, object, number), or a string, which is a sequence of characters.
None == [kind |-> "None"]
Missing == [kind |-> "missing"]
NonStr == [kind |-> "non-string"]
Str(s) == [kind |-> "str", s |-> s]

IsStr(v) == v.kind = "str"

OkEmail == Str(<<"a", "@", "b", ".", "c">>)
UpperEmail == Str(<<"A", "@", "B", ".", "c">>)
BadEmail == Str(<<"n", "o", "t">>)
NoDomainEmail == Str(<<"a", "@">>)
SomeName == Str(<<"A">>)
SomeMessage == Str(<<"h", "i">>)

RawPayload(n, e, m) == [name |-> n, email |-> e, message |-> m]

\* the request bodies clients send
Payloads ==
    { RawPayload(SomeName, OkEmail, SomeMessage),
      RawPayload(SomeName, UpperEmail, SomeMessage),
      RawPayload(SomeName, BadEmail, SomeMessage),
      RawPayload(SomeName, NoDomainEmail, SomeMessage),
      RawPayload(Missing, OkEmail, SomeMessage),
      RawPayload(SomeName, Missing, SomeMessage),
      RawPayload(SomeName, OkEmail, Missing),
      RawPayload(SomeName, OkEmail, NonStr) }

\* ---------------------------------------------------------- ContactRequest
Upper == <<"A", "B", "C", "N", "O", "T">>
Lower == <<"a", "b", "c", "n", "o", "t">>

LowerChar(ch) ==
    IF \E i \in 1..Len(Upper) : Upper[i] = ch
    THEN Lower[CHOOSE i \in 1..Len(Upper) : Upper[i] = ch]
    ELSE ch

AtPositions(s) == { i \in 1..Len(s) : s[i] = "@" }

\* the address syntax EmailStr accepts: one "@", a non-empty local part, a
\* dotted domain whose labels are not empty
EmailSyntaxOk(s) ==
    /\ Cardinality(AtPositions(s)) = 1
    /\ LET at == CHOOSE i \in AtPositions(s) : TRUE
           dom == SubSeq(s, at + 1, Len(s))
       IN  /\ at > 1
           /\ Len(dom) >= 3
           /\ \E i \in 2..(Len(dom) - 1) : dom[i] = "."
           /\ dom[1] # "." /\ dom[Len(dom)] # "."
           /\ \A i \in 1..(Len(dom) - 1) : ~(dom[i] = "." /\ dom[i + 1] = ".")

\* EmailStr yields the normalised address: the local part as written, the
\* domain in lower case
NormalizeEmail(s) ==
    LET at == CHOOSE i \in AtPositions(s) : TRUE
    IN  [i \in 1..Len(s) |-> IF i > at THEN LowerChar(s[i]) ELSE s[i]]

\* the validated e-mail field, or None when it is rejected
EmailStr(v) ==
    IF IsStr(v) /\ EmailSyntaxOk(v.s) THEN Str(NormalizeEmail(v.s)) ELSE None

\* ContactRequest with email declared str instead of EmailStr
ContactRequest_PlainStrEmail(p) ==
    IF IsStr(p.name) /\ IsStr(p.email) /\ IsStr(p.message)
    THEN [name |-> p.name, email |-> p.email, message |-> p.message]
    ELSE None

\* the validated model, or None when the body is rejected
ContactRequest(p) ==
    IF IsStr(p.name) /\ EmailStr(p.email) # None /\ IsStr(p.message)
    THEN [name |-> p.name, email |-> EmailStr(p.email), message |-> p.message]
    ELSE None

\* ------------------------------------------------------ send_contact_email
\* an environment variable is unset (None), set to "", or set to a value
EnvValues == {None, Str(<<>>), Str(<<"x">>)}
Environs ==
    [GMAIL_USER : EnvValues, GMAIL_APP_PASSWORD : EnvValues, TO_EMAIL : EnvValues]

\* Python truth value of an Optional[str]
Falsy(v) == v = None \/ v = Str(<<>>)

\* os.environ.get("TO_EMAIL", gmail_user)
ToEmail(env) == IF env.TO_EMAIL = None THEN env.GMAIL_USER ELSE env.TO_EMAIL

\* the guard without its test of the recipient
EmailNotSent_NoRecipientCheck(env) ==
    Falsy(env.GMAIL_USER) \/ Falsy(env.GMAIL_APP_PASSWORD)

EmailNotSent(env) ==
    Falsy(env.GMAIL_USER) \/ Falsy(env.GMAIL_APP_PASSWORD) \/ Falsy(ToEmail(env))

\* what one call does: the SMTP connections it opens and how it ends;
\* transportOk is whether SMTP_SSL, login and send_message all go through
send_contact_email(env, transportOk) ==
    IF EmailNotSent(env) THEN [smtp |-> 0, outcome |-> "skipped"]
    ELSE IF transportOk THEN [smtp |-> 1, outcome |-> "sent"]
    ELSE [smtp |-> 1, outcome |-> "raised"]

\* ------------------------------------------------------------------- state
VARIABLES
    environ,      \* os.environ: GMAIL_USER, GMAIL_APP_PASSWORD, TO_EMAIL
    tableExists,  \* contact_messages has been created
    rowsAtBoot,   \* history: the rows the table held when on_startup last ran
    store,        \* the committed rows of contact_messages, in commit order
    sessions,     \* the state of the session each get_db() call created
    req,          \* the POST /api/contact requests
    rootResp      \* the last response of GET /

vars == <<environ, tableExists, rowsAtBoot, store, sessions, req, rootResp>>

IdleRequest ==
    [pc |-> "idle", raw |-> None, payload |-> None, db |-> 0, contact |-> 0,
     attempts |-> 0, smtp |-> 0, mail |-> "none", status |-> 0, response |-> None]

Init ==
    /\ environ \in Environs
    /\ tableExists = FALSE
    /\ rowsAtBoot = 0
    /\ store = <<>>
    /\ sessions = [s \in Requests |-> "none"]
    /\ req = [r \in Requests |-> IdleRequest]
    /\ rootResp = None

\* -------------------------------------------------------------- operations
\* create_all preceded by drop_all
create_db_and_tables_Recreate == tableExists' = TRUE /\ store' = <<>>

\* create_all: creates the table if it does not exist, touches no row
create_db_and_tables == tableExists' = TRUE /\ UNCHANGED store

\* a worker process starts, or starts again.  storeOk: whether the SQLite file
\* can be opened and written at this moment; when it cannot, create_all raises
\* and that process does not start
on_startup ==
    /\ \E storeOk \in BOOLEAN :
         IF storeOk
         THEN create_db_and_tables /\ rowsAtBoot' = Len(store)
         ELSE UNCHANGED <<tableExists, rowsAtBoot, store>>
    /\ UNCHANGED <<environ, sessions, req, rootResp>>

\* a liveness endpoint that reports the notifier configuration
read_root_ByConfig ==
    /\ tableExists
    /\ rootResp' = [status |-> IF EmailNotSent(environ) THEN "degraded" ELSE "ok",
                    message |-> "Lunara AI backend is running"]
    /\ UNCHANGED <<environ, tableExists, rowsAtBoot, store, sessions, req>>

read_root ==
    /\ tableExists
    /\ rootResp' = [status |-> "ok", message |-> "Lunara AI backend is running"]
    /\ UNCHANGED <<environ, tableExists, rowsAtBoot, store, sessions, req>>

\* ------------------------------------------------------- POST /api/contact
Set(r, fields) == req' = [req EXCEPT ![r] = fields @@ @]

\* SessionLocal(): a new Session object; the object is named after the call
\* that constructs it
SessionLocal(r) == r

\* a request arrives and Depends(get_db) runs up to its yield: dependencies
\* are solved before the body is validated.  Requests are numbered in the
\* order they arrive.
get_db(r) ==
    /\ tableExists
    /\ req[r].pc = "idle"
    /\ \A q \in Requests : q < r => req[q].pc # "idle"
    /\ sessions' = [sessions EXCEPT ![SessionLocal(r)] = "open"]
    /\ Set(r, [pc |-> "validate", db |-> SessionLocal(r)])
    /\ UNCHANGED <<environ, tableExists, rowsAtBoot, store, rootResp>>

\* payload: ContactRequest, a 422 when the body p does not validate
Validate(r) ==
    /\ req[r].pc = "validate"
    /\ \E p \in Payloads :
         IF ContactRequest(p) = None
         THEN Set(r, [pc |-> "close", raw |-> p, status |-> 422])
         ELSE Set(r, [pc |-> "commit", raw |-> p, payload |-> ContactRequest(p)])
    /\ UNCHANGED <<environ, tableExists, rowsAtBoot, store, sessions, rootResp>>

Max(S) == IF S = {} THEN 0 ELSE CHOOSE m \in S : \A x \in S : x <= m

\* a key that repeats the largest rowid
NextId_NoIncrement(rows) == Max({rows[i].id : i \in 1..Len(rows)})

\* INTEGER PRIMARY KEY: one more than the largest rowid of the table
NextId(rows) == Max({rows[i].id : i \in 1..Len(rows)}) + 1

\* ContactMessage(..., message=payload.name)
Row_MessageFromName(rows, payload, now, r) ==
    [id |-> NextId(rows), name |-> payload.name, email |-> payload.email,
     message |-> payload.name, created_at |-> now, req |-> r]

\* the row INSERT writes; created_at defaults to datetime.utcnow.  req is
\* history: the request that wrote the row.
Row(rows, payload, now, r) ==
    [id |-> NextId(rows), name |-> payload.name, email |-> payload.email,
     message |-> payload.message, created_at |-> now, req |-> r]

\* contact = ContactMessage(...); db.add(contact); db.commit(): one write
\* transaction under SQLite's database lock, which sets contact.id.  When the
\* write fails the exception leaves the handler.
Commit(r) ==
    /\ req[r].pc = "commit"
    /\ sessions[req[r].db] = "open"
    /\ \E storeOk \in BOOLEAN :
         IF storeOk /\ tableExists
         THEN \E now \in Times :
                /\ store' = Append(store, Row(store, req[r].payload, now, r))
                /\ Set(r, [pc |-> "refresh", contact |-> store'[Len(store')].id])
         ELSE /\ Set(r, [pc |-> "close", status |-> 500])
              /\ UNCHANGED store
    /\ UNCHANGED <<environ, tableExists, rowsAtBoot, sessions, rootResp>>

\* db.refresh(contact): a SELECT of the row by primary key, which raises when
\* the file cannot be read
Refresh(r) ==
    /\ req[r].pc = "refresh"
    /\ sessions[req[r].db] = "open"
    /\ \E storeOk \in BOOLEAN :
         IF storeOk
         THEN Set(r, [pc |-> "mail"])
         ELSE Set(r, [pc |-> "close", status |-> 500])
    /\ UNCHANGED <<environ, tableExists, rowsAtBoot, store, sessions, rootResp>>

\* send_contact_email(payload) outside any try: a raise leaves the handler
SendMail_NoExcept(r) ==
    /\ req[r].pc = "mail"
    /\ \E transportOk \in BOOLEAN :
         LET res == send_contact_email(environ, transportOk)
         IN  IF res.outcome = "raised"
             THEN Set(r, [pc |-> "close", status |-> 500,
                          attempts |-> req[r].attempts + 1,
                          smtp |-> req[r].smtp + res.smtp, mail |-> "failed"])
             ELSE Set(r, [pc |-> "return",
                          attempts |-> req[r].attempts + 1,
                          smtp |-> req[r].smtp + res.smtp, mail |-> res.outcome])
    /\ UNCHANGED <<environ, tableExists, rowsAtBoot, store, sessions, rootResp>>

\* try: send_contact_email(payload) except Exception: print(...)
SendMail(r) ==
    /\ req[r].pc = "mail"
    /\ \E transportOk \in BOOLEAN :
         LET res == send_contact_email(environ, transportOk)
         IN  Set(r, [pc |-> "return",
                     attempts |-> req[r].attempts + 1,
                     smtp |-> req[r].smtp + res.smtp,
                     mail |-> IF res.outcome = "raised" THEN "failed" ELSE res.outcome])
    /\ UNCHANGED <<environ, tableExists, rowsAtBoot, store, sessions, rootResp>>

\* return {"success": True, "id": contact.id, ...}
Return(r) ==
    /\ req[r].pc = "return"
    /\ Set(r, [pc |-> "close", status |-> 200,
               response |-> [success |-> TRUE, id |-> req[r].contact]])
    /\ UNCHANGED <<environ, tableExists, rowsAtBoot, store, sessions, rootResp>>

\* db.close() after the yield but outside finally: skipped when the request raised
Close_OnSuccessOnly(r) ==
    /\ req[r].pc = "close"
    /\ sessions' = [sessions EXCEPT
                      ![req[r].db] = IF req[r].status = 500 THEN @ ELSE "closed"]
    /\ Set(r, [pc |-> "done"])
    /\ UNCHANGED <<environ, tableExists, rowsAtBoot, store, rootResp>>

\* get_db after its yield: finally: db.close(); the response then goes out
Close(r) ==
    /\ req[r].pc = "close"
    /\ sessions' = [sessions EXCEPT ![req[r].db] = "closed"]
    /\ Set(r, [pc |-> "done"])
    /\ UNCHANGED <<environ, tableExists, rowsAtBoot, store, rootResp>>

submit_contact(r) ==
    \/ get_db(r)
    \/ Validate(r)
    \/ Commit(r)
    \/ Refresh(r)
    \/ SendMail(r)
    \/ Return(r)
    \/ Close(r)

Next ==
    \/ on_startup
    \/ read_root
    \/ \E r \in Requests : submit_contact(r)

Spec == Init /\ [][Next]_vars

\* ================================================================== claims
\* the rows request r wrote
RowsOf(r) == { i \in 1..Len(store) : store[i].req = r }

\* the response of request r has been produced
Answered(r) == req[r].pc \in {"close", "done"}

Succeeded(r) == req[r].status = 200

\* request r holds the row its response names, with these three columns
Persisted(r, name, email, message) ==
    \E i \in RowsOf(r) :
        /\ store[i].id = req[r].response.id
        /\ store[i].name = name
        /\ store[i].email = email
        /\ store[i].message = message

\* a body that fails validation: a field missing or not a string, or an e-mail
\* that is not an address
Malformed(p) ==
    \/ \E f \in {"name", "email", "message"} : p[f] = Missing \/ p[f] = NonStr
    \/ IsStr(p.email) /\ ~EmailSyntaxOk(p.email.s)

\* C1: a request whose body fails validation is answered with a 4xx, writes no
\* row and makes no mail attempt.
C1_RejectedWithoutSideEffect ==
    \A r \in Requests :
        (req[r].raw # None /\ Malformed(req[r].raw)) =>
            /\ req[r].status \in 400..499
            /\ RowsOf(r) = {}
            /\ req[r].attempts = 0 /\ req[r].smtp = 0

C1_Witness ==
    \E r, q \in Requests :
        /\ req[r].pc = "done" /\ req[r].raw.email = BadEmail /\ req[r].status = 422
        /\ req[q].pc = "done" /\ req[q].raw.name = Missing /\ req[q].status = 422

\* C2 (as stated): a request that fails with a server error made no mail
\* attempt and left no row of its submission in the table.
C2_FailedInsertLeavesNothing ==
    \A r \in Requests :
        req[r].status \in 500..599 => req[r].attempts = 0 /\ RowsOf(r) = {}

\* C3: when the mail transport raises, the request still answers success with
\* the id of its row, and the row is in the table as committed.
C3_MailFailureAbsorbed ==
    \A r \in Requests :
        req[r].mail = "failed" =>
            /\ req[r].pc \in {"return", "close", "done"}
            /\ req[r].status \in {0, 200}
            /\ Answered(r) =>
                 /\ Succeeded(r) /\ req[r].response.success
                 /\ req[r].response.id = req[r].contact
                 /\ Persisted(r, req[r].payload.name, req[r].payload.email,
                              req[r].payload.message)

C3_Witness ==
    \E r \in Requests :
        req[r].mail = "failed" /\ req[r].smtp = 1 /\ req[r].pc = "done" /\ Succeeded(r)

\* C4 (as stated): every success response names a committed row whose name,
\* email and message are exactly the submitted ones.
C4_ExactlyAsSubmitted ==
    \A r \in Requests :
        Succeeded(r) =>
            Persisted(r, req[r].raw.name, req[r].raw.email, req[r].raw.message)

\* C4 (amended): every success response names a committed row whose name and
\* message are the submitted ones and whose email is the submitted address
\* with its domain in lower case, whatever the mail outcome.
C4_SuccessMeansPersisted ==
    \A r \in Requests :
        Succeeded(r) =>
            /\ req[r].response.success
            /\ req[r].mail \in {"sent", "skipped", "failed"}
            /\ Persisted(r, req[r].raw.name, Str(NormalizeEmail(req[r].raw.email.s)),
                         req[r].raw.message)

C4_Witness ==
    \E r, q \in Requests :
        /\ Succeeded(r) /\ req[r].mail = "failed" /\ req[r].raw.email = UpperEmail
        /\ Succeeded(q) /\ req[q].mail = "sent" /\ req[q].raw.email = OkEmail

\* C5: every commit gets an id greater than every id committed before it, and
\* successful submissions get distinct ids, each naming a row in the table.
C5_FreshIncreasingIds ==
    /\ \A i, j \in 1..Len(store) : i < j => store[i].id < store[j].id
    /\ \A r \in Requests :
         Succeeded(r) => \E i \in RowsOf(r) : store[i].id = req[r].response.id
    /\ \A r, q \in Requests :
         (r # q /\ Succeeded(r) /\ Succeeded(q)) =>
             req[r].response.id # req[q].response.id

\* two submissions in flight together, the later arrival committing first,
\* both answered with success and both rows in the table
C5_Witness ==
    /\ Len(store) = 2
    /\ store[1].req = 2 /\ store[2].req = 1
    /\ Succeeded(1) /\ Succeeded(2)
    /\ req[1].pc = "done" /\ req[2].pc = "done"

\* the recipient as the claim resolves it
ResolvedRecipient == IF environ.TO_EMAIL # None THEN environ.TO_EMAIL ELSE environ.GMAIL_USER

MissingOrEmpty(v) == v = None \/ (IsStr(v) /\ Len(v.s) = 0)

Unconfigured ==
    \/ MissingOrEmpty(environ.GMAIL_USER)
    \/ MissingOrEmpty(environ.GMAIL_APP_PASSWORD)
    \/ MissingOrEmpty(ResolvedRecipient)

\* C6: when the sender, the credential or the resolved recipient is missing
\* or empty, a mail attempt opens no SMTP connection and does not raise, and
\* the submission still succeeds with its row in the table.
C6_SoftDisable ==
    \A r \in Requests :
        (Unconfigured /\ req[r].attempts > 0) =>
            /\ req[r].smtp = 0
            /\ req[r].mail = "skipped"
            /\ Answered(r) =>
                 /\ Succeeded(r)
                 /\ Persisted(r, req[r].payload.name, req[r].payload.email,
                              req[r].payload.message)

\* sender and credential set, TO_EMAIL set to the empty string
C6_Witness ==
    /\ ~MissingOrEmpty(environ.GMAIL_USER)
    /\ ~MissingOrEmpty(environ.GMAIL_APP_PASSWORD)
    /\ environ.TO_EMAIL = Str(<<>>)
    /\ \E r \in Requests : req[r].pc = "done" /\ req[r].mail = "skipped" /\ Succeeded(r)

\* C7: a GET / answers the fixed payload with status "ok" and changes nothing
\* else: not the table, not a session, not a request, no mail attempt.
C7_RootOkNoSideEffect ==
    [][rootResp' # rootResp =>
         /\ rootResp' = [status |-> "ok", message |-> "Lunara AI backend is running"]
         /\ UNCHANGED <<environ, tableExists, rowsAtBoot, store, sessions, req>>]_vars

\* answered with the notifier unconfigured and submissions in flight
C7_Witness ==
    /\ rootResp # None /\ rootResp.status = "ok"
    /\ Unconfigured
    /\ \E r \in Requests : req[r].pc = "refresh"

\* C8: a committed row stays in the table, unchanged, across every step.
C8_AppendOnly ==
    [][\A i \in 1..Len(store) : i <= Len(store') /\ store'[i] = store[i]]_vars

\* on_startup ran again with two rows in the table, and both rows are still
\* there after the requests that wrote them have finished
C8_Witness ==
    /\ rowsAtBoot = 2 /\ Len(store) = 2
    /\ store[1].created_at # store[2].created_at
    /\ \A r \in Requests : req[r].pc = "done" /\ RowsOf(r) # {}

\* C9: the sessions of distinct requests are distinct, a request in flight
\* has its session open, and a finished request has its session closed, on
\* every exit path.
C9_SessionScoped ==
    \A r \in Requests :
        req[r].db # 0 =>
            /\ \A q \in Requests : q # r => req[q].db # req[r].db
            /\ req[r].pc # "done" => sessions[req[r].db] = "open"
            /\ req[r].pc = "done" => sessions[req[r].db] = "closed"

\* one request ended by an insert failure with its session closed, while the
\* other is in flight on its own open session
C9_Witness ==
    \E r, q \in Requests :
        /\ req[r].pc = "done" /\ req[r].status = 500 /\ sessions[req[r].db] = "closed"
        /\ req[q].pc = "mail" /\ sessions[req[q].db] = "open"

\* C10 (as stated): a submission whose insert committed has made exactly one
\* mail attempt, ended, by the time its response is produced.
C10_OneMailAttemptPerCommit ==
    \A r \in Requests :
        (RowsOf(r) # {} /\ Answered(r)) =>
            req[r].attempts = 1 /\ req[r].mail \in {"sent", "skipped", "failed"}
====
